---- MODULE Spec2Model ----
(***************************************************************************)
(* Model of the Google Calendar integration of SubTracker                  *)
(* (src/src/utils/googleCalendar.ts): the token cache kept in localStorage,*)
(* the module-level isInitialized / tokenClient pair, the lazily loaded    *)
(* gapi client, and the two exported async functions initGoogleCalendar    *)
(* and addToGoogleCalendar.  Every call of an exported function is one     *)
(* entry of `inv`; a call runs synchronously up to its next await on an    *)
(* external event (script load, provider callback, gapi.load callback,     *)
(* client.init, events.insert), which is where calls interleave on the    *)
(* browser's event loop.                                                   *)
(***************************************************************************)
EXTENDS Integers, Sequences, FiniteSets, TLC

\* ------------------------------------------------------------- bounds
MaxCalls == 2
MaxTime == 2000

\* expires_in is in seconds, Date.now() in milliseconds (line 17)
MsPerSecond == 1000

Calls == 1..MaxCalls

\* access tokens are opaque and every grant is a fresh one: the grant that answers
\* the request of call c is token c, and 0 is the token of an earlier session;
\* the expiry durations (seconds) the provider reports
OldToken == 0
NoToken == -1
ExpiresIn == {1}
\* the item a previous session of the application can have left behind
InitialItems == {[access_token |-> OldToken, expires_at |-> MsPerSecond]}
ProviderErrors == {"access_denied"}
InsertErrors == {"insert rejected"}

\* ------------------------------------------------------------- values
\* T | null is a sequence of length 0 (null) or 1
Null == <<>>
Some(x) == <<x>>
IsNull(o) == Len(o) = 0
Val(o) == o[1]

NoError == ""

Merge(r, u) == [f \in DOMAIN r |-> IF f \in DOMAIN u THEN u[f] ELSE r[f]]

\* JSON.stringify / JSON.parse of a StoredTokenInfo: the stored text is the
\* sequence of its keys and values, not the object
JSONstringify(tokenInfo) ==
    <<"access_token", tokenInfo.access_token, "expires_at", tokenInfo.expires_at>>

JSONparse(text) == [access_token |-> text[2], expires_at |-> text[4]]

\* ------------------------------------------------------------- state
VARIABLES
    GOOGLE_API_KEY,     \* TRUE when the build defines VITE_GOOGLE_API_KEY
    GOOGLE_CLIENT_ID,   \* TRUE when the build defines VITE_GOOGLE_CLIENT_ID
    isInitialized,      \* module flag, line 9
    tokenClient,        \* module variable, line 10: Null or Some(the client object)
    clientCallback,     \* the callback field of each token client object; a client is
                        \* named by the call that created it, 0 is the placeholder
    localStorage,       \* the text under TOKEN_STORAGE_KEY, Null when there is none
    now,                \* Date.now()
    gapi,               \* window.gapi: [loaded, client, calendar, token]
    pending,            \* calls whose requestAccessToken the provider has not answered
    started,            \* number of calls made so far
    isConnecting,       \* the state of QuickActions (QuickActions.tsx line 13)
    inv                 \* the calls: position, locals, settlement and what each did

vars == <<GOOGLE_API_KEY, GOOGLE_CLIENT_ID, isInitialized, tokenClient,
          clientCallback, localStorage, now, gapi, pending, started, isConnecting, inv>>

NoResponse == [access_token |-> NoToken, expires_in |-> 0, error |-> NoError]

NotCalled ==
    [kind |-> "none", pc |-> "idle", result |-> "none", error |-> NoError,
     accessToken |-> NoToken, sawInit |-> FALSE, ui |-> FALSE, reads |-> 0, read |-> Null,
     response |-> NoResponse, insertResult |-> "none",
     gisLoads |-> 0, tokenClients |-> 0, prompts |-> 0, writes |-> 0,
     gapiLoads |-> 0, gapiInits |-> 0, setTokens |-> 0, inserts |-> 0,
     insertToken |-> NoToken, okToasts |-> 0, errToasts |-> 0]

Init ==
    /\ GOOGLE_API_KEY \in BOOLEAN
    /\ GOOGLE_CLIENT_ID \in BOOLEAN
    /\ isInitialized = FALSE
    /\ tokenClient = Null
    /\ clientCallback = [c \in Calls |-> 0]
    /\ localStorage \in {Null} \cup {JSONstringify(t) : t \in InitialItems}
    /\ now = 0
    /\ gapi = [loaded |-> FALSE, client |-> FALSE, calendar |-> FALSE, token |-> NoToken]
    /\ pending = {}
    /\ started = 0
    /\ isConnecting = FALSE
    /\ inv = [c \in Calls |-> NotCalled]

\* ------------------------------------------------------------- token cache
storeTokenInfoSeconds(tokenResponse, t) ==
    JSONstringify([access_token |-> tokenResponse.access_token,
                   expires_at |-> t + tokenResponse.expires_in])

\* storeTokenInfo, lines 14-20: the text written under TOKEN_STORAGE_KEY at time t
storeTokenInfo(tokenResponse, t) ==
    JSONstringify([access_token |-> tokenResponse.access_token,
                   expires_at |-> t + tokenResponse.expires_in * MsPerSecond])

getStoredTokenLate(stored, t) ==
    IF IsNull(stored)
    THEN [value |-> Null, storage |-> stored]
    ELSE LET tokenInfo == JSONparse(stored)
         IN IF t > tokenInfo.expires_at
            THEN [value |-> Null, storage |-> Null]
            ELSE [value |-> Some(tokenInfo), storage |-> stored]

\* getStoredToken, lines 22-32: what it returns at time t and what it leaves stored
getStoredToken(stored, t) ==
    IF IsNull(stored)
    THEN [value |-> Null, storage |-> stored]
    ELSE LET tokenInfo == JSONparse(stored)
         IN IF t >= tokenInfo.expires_at
            THEN [value |-> Null, storage |-> Null]
            ELSE [value |-> Some(tokenInfo), storage |-> stored]

validateEnvVarsKeyOnly == GOOGLE_API_KEY

\* validateEnvVars, lines 34-38: TRUE when it returns, FALSE when it throws
validateEnvVars == GOOGLE_API_KEY /\ GOOGLE_CLIENT_ID

\* handleGoogleCalendarError, lines 40-47: one toast.error for the call
handleGoogleCalendarError(r, error) ==
    Merge(r, [errToasts |-> r.errToasts + 1])

\* the catch block of initGoogleCalendar, lines 75-79
initCatch(r, error) == handleGoogleCalendarError(r, error)

addCatchSwallows(r, error) ==
    Merge(handleGoogleCalendarError(r, error),
          [pc |-> "done", result |-> "resolved", okToasts |-> r.okToasts + 1])

\* the catch block of addToGoogleCalendar, lines 157-161: notify, then rethrow
addCatch(r, error) ==
    Merge(handleGoogleCalendarError(r, error),
          [pc |-> "done", result |-> "rejected", error |-> error])

AlreadyInitializedNever == FALSE

\* line 50: the early return of initGoogleCalendar
AlreadyInitialized == isInitialized

HasStoredTokenNever(storedToken) == FALSE

\* line 95: the branch on the token read from the cache
HasStoredToken(storedToken) == ~IsNull(storedToken)

CallbackRejectsNever(response) == FALSE

\* line 106: the branch of the provider callback
CallbackRejects(response) == response.error # NoError

\* lines 121 and 165: the calendar client counts as loaded
GapiClientPresent == gapi.loaded /\ gapi.client

config == <<GOOGLE_API_KEY, GOOGLE_CLIENT_ID>>

\* A settled call's caller resumes in a microtask, and the event loop runs the
\* microtasks before it delivers the next event: no event is delivered while a
\* call has settled and its caller has not resumed
Quiet == \A c \in Calls : inv[c].pc # "done"

\* ------------------------------------------------------------- calendar client
setTokenSkipped(g, accessToken) == g

\* window.gapi.client.setToken, lines 126-128
setToken(g, accessToken) == [g EXCEPT !.token = accessToken]

\* lines 125-154: setToken on the shared client, then events.insert; with no
\* discovery document loaded gapi.client.calendar is undefined and the call
\* throws; g is window.gapi when the lines run
Submit(c, r, g) ==
    LET g1 == setToken(g, r.accessToken)
    IN /\ gapi' = g1
       /\ inv' = [inv EXCEPT ![c] =
               IF g1.calendar
               THEN \* insertToken: the token on the client as the request is issued
                    Merge(r, [pc |-> "insertWait", setTokens |-> r.setTokens + 1,
                              inserts |-> r.inserts + 1, insertToken |-> g1.token])
               ELSE addCatch(Merge(r, [setTokens |-> r.setTokens + 1]),
                             "TypeError: calendar is undefined")]

\* lines 120-123 and 164-172: load the calendar client when it is absent (the
\* script element is appended and the call waits for its load event), else submit
LoadOrSubmit(c, r) ==
    IF ~GapiClientPresent
    THEN /\ inv' = [inv EXCEPT ![c] =
                Merge(r, [pc |-> "gapiScriptWait", gapiLoads |-> r.gapiLoads + 1])]
         /\ UNCHANGED gapi
    ELSE Submit(c, r, gapi)

\* ------------------------------------------------------------- authorization
\* lines 92-118, up to the await of the token request; client is the value of
\* tokenClient when the lines run
Authorize(c, r, client) ==
    LET got == getStoredToken(localStorage, now)
        r1 == Merge(r, [reads |-> r.reads + 1, read |-> got.value])
    IN /\ localStorage' = got.storage
       /\ IF HasStoredToken(got.value)
          THEN /\ LoadOrSubmit(c, Merge(r1, [accessToken |-> Val(got.value).access_token]))
               /\ UNCHANGED <<clientCallback, pending>>
          ELSE IF IsNull(client)
          THEN /\ inv' = [inv EXCEPT ![c] = addCatch(r1, "Token client not initialized")]
               /\ UNCHANGED <<clientCallback, pending, gapi>>
          ELSE /\ clientCallback' = [clientCallback EXCEPT ![Val(client)] = c]
               /\ pending' = pending \cup {[call |-> c, client |-> Val(client)]}
               /\ inv' = [inv EXCEPT ![c] =
                      Merge(r1, [pc |-> "tokenWait", prompts |-> r1.prompts + 1])]
               /\ UNCHANGED gapi

\* ------------------------------------------------------------- initialization
\* initGoogleCalendar rejects with error: its own catch notifies and rethrows
\* (lines 75-79); under addToGoogleCalendar the rethrown error reaches the
\* caller's catch as well (lines 89, 157-161)
initRejected(r, error) ==
    IF r.kind = "init"
    THEN Merge(initCatch(r, error), [pc |-> "done", result |-> "rejected", error |-> error])
    ELSE addCatch(initCatch(r, error), error)

\* lines 50-63: the synchronous part of initGoogleCalendar
InitBegin(c, r) ==
    /\ inv' = [inv EXCEPT ![c] =
            IF AlreadyInitialized
            THEN Merge(r, [pc |-> "done", result |-> "resolved"])
            ELSE IF ~validateEnvVars
            THEN initRejected(r, "Missing Google Calendar credentials")
            ELSE Merge(r, [pc |-> "gisWait", gisLoads |-> r.gisLoads + 1])]
    /\ UNCHANGED <<localStorage, clientCallback, pending, gapi>>

\* one of the two exported functions is entered (lines 49-50, 82-90); ui tells a
\* call made by handleCalendarConnect from one made by other code
Enter(c, kind, ui) ==
    /\ Quiet
    /\ c = started + 1
    /\ started' = c
    /\ LET r == Merge(NotCalled, [kind |-> kind, result |-> "pending",
                                  sawInit |-> isInitialized, ui |-> ui])
       IN IF kind = "add" /\ isInitialized
          THEN Authorize(c, r, tokenClient)
          ELSE InitBegin(c, r)
    /\ UNCHANGED <<config, isInitialized, tokenClient, now>>

\* a call of one of the two exported functions
Call(c, kind) ==
    /\ Enter(c, kind, FALSE)
    /\ UNCHANGED isConnecting

handleCalendarConnectUnguarded(c) ==
    /\ isConnecting' = TRUE
    /\ Enter(c, "add", TRUE)

\* handleCalendarConnect up to its await (QuickActions.tsx lines 19-28), run on a
\* click of the calendar button, which is disabled while isConnecting (line 61)
handleCalendarConnect(c) ==
    /\ ~isConnecting
    /\ isConnecting' = TRUE
    /\ Enter(c, "add", TRUE)

GisScriptOnloadFlagOnly(c) ==
    /\ Quiet
    /\ inv[c].pc = "gisWait"
    /\ tokenClient' = tokenClient
    /\ isInitialized' = TRUE
    /\ IF inv[c].kind = "init"
       THEN /\ inv' = [inv EXCEPT ![c] =
                   Merge(@, [pc |-> "done", result |-> "resolved"])]
            /\ UNCHANGED <<localStorage, clientCallback, pending, gapi>>
       ELSE Authorize(c, inv[c], tokenClient)
    /\ UNCHANGED <<config, isConnecting, now, started>>

\* script.onload, then lines 65-74
GisScriptOnload(c) ==
    /\ Quiet
    /\ inv[c].pc = "gisWait"
    /\ tokenClient' = Some(c)
    /\ isInitialized' = TRUE
    /\ LET r == Merge(inv[c], [tokenClients |-> inv[c].tokenClients + 1])
       IN IF r.kind = "init"
          THEN /\ inv' = [inv EXCEPT ![c] = Merge(r, [pc |-> "done", result |-> "resolved"])]
               /\ UNCHANGED <<localStorage, clientCallback, pending, gapi>>
          ELSE Authorize(c, r, Some(c))
    /\ UNCHANGED <<config, isConnecting, now, started>>

\* initTokenClient throws after the script loaded (lines 66-72 inside the try)
GisTokenClientThrows(c) ==
    /\ Quiet
    /\ inv[c].pc = "gisWait"
    /\ inv' = [inv EXCEPT ![c] = initRejected(@, "initTokenClient failed")]
    /\ UNCHANGED <<config, isConnecting, isInitialized, tokenClient, clientCallback, localStorage,
                   now, gapi, pending, started>>

GisScriptOnerrorFlagSet(c) ==
    /\ Quiet
    /\ inv[c].pc = "gisWait"
    /\ isInitialized' = TRUE
    /\ inv' = [inv EXCEPT ![c] =
            initRejected(@, "Failed to load Google Identity Services")]
    /\ UNCHANGED <<config, isConnecting, tokenClient, clientCallback, localStorage,
                   now, gapi, pending, started>>

\* script.onerror, lines 60-61
GisScriptOnerror(c) ==
    /\ Quiet
    /\ inv[c].pc = "gisWait"
    /\ inv' = [inv EXCEPT ![c] =
            initRejected(@, "Failed to load Google Identity Services")]
    /\ UNCHANGED <<config, isConnecting, isInitialized, tokenClient, clientCallback, localStorage,
                   now, gapi, pending, started>>

\* ------------------------------------------------------------- provider
\* the identity provider answers request q by calling the callback field of the
\* client the request was made on (lines 105-111); resolve and reject of a promise
\* that is already settled do nothing
Deliver(q, response) ==
    LET c == clientCallback[q.client]
    IN /\ Quiet
       /\ q \in pending
       /\ pending' = pending \ {q}
       /\ IF c = 0 \/ inv[IF c = 0 THEN q.call ELSE c].pc # "tokenWait"
          THEN UNCHANGED <<localStorage, gapi, inv>>
          ELSE LET r == Merge(inv[c], [response |-> response])
               IN IF CallbackRejects(response)
                  THEN /\ inv' = [inv EXCEPT ![c] = addCatch(r, response.error)]
                       /\ UNCHANGED <<localStorage, gapi>>
                  ELSE \* lines 116-117, then 120 onwards
                       /\ localStorage' = storeTokenInfo(response, now)
                       /\ LoadOrSubmit(c, Merge(r, [writes |-> r.writes + 1,
                                                    accessToken |-> response.access_token]))
       /\ UNCHANGED <<config, isConnecting, isInitialized, tokenClient, clientCallback, now, started>>

ProviderGrants(q, ttl) ==
    Deliver(q, [access_token |-> q.call, expires_in |-> ttl, error |-> NoError])

ProviderDenies(q, e) ==
    Deliver(q, [access_token |-> NoToken, expires_in |-> 0, error |-> e])

\* ------------------------------------------------------------- gapi loading
\* script.onload of api.js (line 169), then gapi.load('client', ...) (line 175)
GapiScriptOnload(c) ==
    /\ Quiet
    /\ inv[c].pc = "gapiScriptWait"
    /\ gapi' = [gapi EXCEPT !.loaded = TRUE]
    /\ inv' = [inv EXCEPT ![c].pc = "gapiLoadWait"]
    /\ UNCHANGED <<config, isConnecting, isInitialized, tokenClient, clientCallback, localStorage,
                   now, pending, started>>

\* loadGapiClient rejects and the caller's catch runs (lines 122, 157-161)
GapiFails(c, at, error) ==
    /\ Quiet
    /\ inv[c].pc = at
    /\ inv' = [inv EXCEPT ![c] = addCatch(@, error)]
    /\ UNCHANGED <<config, isConnecting, isInitialized, tokenClient, clientCallback, localStorage,
                   now, gapi, pending, started>>

\* script.onerror, line 170
GapiScriptOnerror(c) == GapiFails(c, "gapiScriptWait", "Failed to load gapi client")

\* the callback of gapi.load (line 176): gapi.client exists; then client.init
\* is called (line 183)
GapiLoadCallback(c) ==
    /\ Quiet
    /\ inv[c].pc = "gapiLoadWait"
    /\ gapi' = [gapi EXCEPT !.client = TRUE]
    /\ inv' = [inv EXCEPT ![c] =
            Merge(@, [pc |-> "gapiInitWait", gapiInits |-> @.gapiInits + 1])]
    /\ UNCHANGED <<config, isConnecting, isInitialized, tokenClient, clientCallback, localStorage,
                   now, pending, started>>

\* onerror and ontimeout of gapi.load, lines 177-179
GapiLoadOnerror(c) == GapiFails(c, "gapiLoadWait", "Failed to load gapi client")

GapiLoadNoTimeout(c) == GapiFails(c, "never", "Timeout loading gapi client")

GapiLoadOntimeout(c) == GapiFails(c, "gapiLoadWait", "Timeout loading gapi client")

\* client.init resolves (lines 183-186): the discovery document is loaded and
\* gapi.client.calendar exists; loadGapiClient returns and line 125 follows
GapiInitResolved(c) ==
    /\ Quiet
    /\ inv[c].pc = "gapiInitWait"
    /\ Submit(c, inv[c], [gapi EXCEPT !.calendar = TRUE])
    /\ UNCHANGED <<config, isConnecting, isInitialized, tokenClient, clientCallback, localStorage,
                   now, pending, started>>

\* client.init rejects
GapiInitRejected(c) == GapiFails(c, "gapiInitWait", "client.init rejected")

\* ------------------------------------------------------------- submission
InsertResolvedSilent(c) ==
    /\ Quiet
    /\ inv[c].pc = "insertWait"
    /\ inv' = [inv EXCEPT ![c] =
            Merge(@, [pc |-> "done", result |-> "resolved", insertResult |-> "ok"])]
    /\ UNCHANGED <<config, isConnecting, isInitialized, tokenClient, clientCallback, localStorage,
                   now, gapi, pending, started>>

\* events.insert resolves: line 156
InsertResolved(c) ==
    /\ Quiet
    /\ inv[c].pc = "insertWait"
    /\ inv' = [inv EXCEPT ![c] =
            Merge(@, [pc |-> "done", result |-> "resolved", insertResult |-> "ok",
                      okToasts |-> @.okToasts + 1])]
    /\ UNCHANGED <<config, isConnecting, isInitialized, tokenClient, clientCallback, localStorage,
                   now, gapi, pending, started>>

\* events.insert rejects with e: lines 157-161
InsertRejected(c, e) ==
    /\ Quiet
    /\ inv[c].pc = "insertWait"
    /\ inv' = [inv EXCEPT ![c] = addCatch(Merge(@, [insertResult |-> e]), e)]
    /\ UNCHANGED <<config, isConnecting, isInitialized, tokenClient, clientCallback, localStorage,
                   now, gapi, pending, started>>

ReturnOnSuccessOnly(c) ==
    /\ inv[c].pc = "done"
    /\ inv' = [inv EXCEPT ![c] = Merge(NotCalled, [pc |-> "returned"])]
    /\ isConnecting' = IF inv[c].ui /\ inv[c].result = "resolved"
                        THEN FALSE ELSE isConnecting
    /\ UNCHANGED <<config, isInitialized, tokenClient, clientCallback, localStorage,
                   now, gapi, pending, started>>

\* the caller of a settled call resumes (the await of
\* src/src/components/QuickActions.tsx line 24 returns or throws, and for
\* handleCalendarConnect the finally of lines 32-34 runs); what the call did is
\* no longer looked at
Return(c) ==
    /\ inv[c].pc = "done"
    /\ inv' = [inv EXCEPT ![c] = Merge(NotCalled, [pc |-> "returned"])]
    /\ isConnecting' = IF inv[c].ui THEN FALSE ELSE isConnecting
    /\ UNCHANGED <<config, isInitialized, tokenClient, clientCallback, localStorage,
                   now, gapi, pending, started>>

\* ------------------------------------------------------------- clock
Tick ==
    /\ Quiet
    /\ now + MsPerSecond <= MaxTime
    /\ now' = now + MsPerSecond
    /\ UNCHANGED <<config, isConnecting, isInitialized, tokenClient, clientCallback, localStorage,
                   gapi, pending, started, inv>>

\* the events the calls wait for, and the clock
Events ==
    \/ \E c \in Calls : GisScriptOnload(c)
    \/ \E c \in Calls : GisTokenClientThrows(c)
    \/ \E c \in Calls : GisScriptOnerror(c)
    \/ \E q \in pending, ttl \in ExpiresIn : ProviderGrants(q, ttl)
    \/ \E q \in pending, e \in ProviderErrors : ProviderDenies(q, e)
    \/ \E c \in Calls : GapiScriptOnload(c)
    \/ \E c \in Calls : GapiScriptOnerror(c)
    \/ \E c \in Calls : GapiLoadCallback(c)
    \/ \E c \in Calls : GapiLoadOnerror(c)
    \/ \E c \in Calls : GapiLoadOntimeout(c)
    \/ \E c \in Calls : GapiInitResolved(c)
    \/ \E c \in Calls : GapiInitRejected(c)
    \/ \E c \in Calls : InsertResolved(c)
    \/ \E c \in Calls, e \in InsertErrors : InsertRejected(c, e)
    \/ \E c \in Calls : Return(c)
    \/ Tick

Next ==
    \/ \E c \in Calls, kind \in {"add", "init"} : Call(c, kind)
    \/ Events

Spec == Init /\ [][Next]_vars

\* the application as a user drives it: calls are made by clicks of the calendar
\* button of QuickActions, the only caller of addToGoogleCalendar in the repository
NextUI ==
    \/ \E c \in Calls : handleCalendarConnect(c)
    \/ Events

SpecUI == Init /\ [][NextUI]_vars

\* timers fire and microtasks run: the ontimeout of gapi.load is called once its
\* timeout has passed (line 178), and a settled call's caller resumes
Fairness ==
    \A c \in Calls : WF_vars(GapiLoadOntimeout(c)) /\ WF_vars(Return(c))

SpecLive == Init /\ [][NextUI]_vars /\ Fairness

\* ------------------------------------------------------------- properties
\* the step in which call c runs getStoredToken
ReadsCache(c) == inv'[c].reads = inv[c].reads + 1

StoredInfo == [access_token |-> localStorage[2], expires_at |-> localStorage[4]]

\* C1: a read of the token cache at a time now >= expires_at returns absent and
\* leaves no entry stored; a read at a time now < expires_at returns exactly the
\* stored access_token and expires_at and leaves the entry as it was; so the
\* expires_at of a returned token is later than the time of the read.
C1_CacheRead ==
    [][\A c \in Calls : ReadsCache(c) =>
          IF IsNull(localStorage)
          THEN IsNull(inv'[c].read) /\ IsNull(localStorage')
          ELSE IF now >= StoredInfo.expires_at
          THEN IsNull(inv'[c].read) /\ IsNull(localStorage')
          ELSE /\ inv'[c].read = Some(StoredInfo)
               /\ localStorage' = localStorage
               /\ Val(inv'[c].read).expires_at > now]_vars

\* C1 witness: one call was handed the stored token, and a later read by the other
\* call, at or after its expires_at, returned absent and removed the entry
C1_Witness ==
    \E c, d \in Calls :
        /\ ~IsNull(inv[c].read)
        /\ inv[d].reads = 1 /\ IsNull(inv[d].read) /\ inv[d].pc = "tokenWait"
        /\ now >= Val(inv[c].read).expires_at
        /\ IsNull(localStorage)

\* C2: a second call of initGoogleCalendar that starts while a first one waits for
\* the load event of the identity script does not load the script again: at most
\* one call is waiting for a script element it appended.
C2_SingleScriptLoad ==
    Cardinality({c \in Calls : inv[c].pc = "gisWait"}) <= 1

\* C3: a call of initGoogleCalendar made after an earlier call completed
\* successfully resolves at once, appends no script element and creates no token
\* client; the call that did initialize loaded the script once and created one
\* token client.
C3_SecondInitNoReload ==
    [][\A c \in Calls :
          /\ (inv[c].pc = "idle" /\ inv'[c].kind = "init" /\ isInitialized) =>
                /\ inv'[c].pc = "done" /\ inv'[c].result = "resolved"
                /\ inv'[c].gisLoads = 0 /\ inv'[c].tokenClients = 0
                /\ tokenClient' = tokenClient /\ isInitialized'
          /\ (inv[c].pc = "gisWait" /\ inv'[c].kind = "init"
                /\ inv'[c].result = "resolved") =>
                inv'[c].gisLoads = 1 /\ inv'[c].tokenClients = 1]_vars

\* C3 witness: the first call has returned having initialized, and the second
\* call of initGoogleCalendar has resolved without a script load
C3_Witness ==
    /\ inv[1].pc = "returned" /\ isInitialized /\ tokenClient = Some(1)
    /\ inv[2].kind = "init" /\ inv[2].pc = "done" /\ inv[2].result = "resolved"
    /\ inv[2].sawInit /\ inv[2].gisLoads = 0

\* C4: a call of addToGoogleCalendar whose cache read returned a token never calls
\* requestAccessToken and never writes the cache, and what it sets on the calendar
\* client and submits with is the access token it read.
C4_CacheBypass ==
    \A c \in Calls :
        ~IsNull(inv[c].read) =>
            /\ inv[c].prompts = 0 /\ inv[c].writes = 0
            /\ inv[c].accessToken = Val(inv[c].read).access_token
            /\ inv[c].inserts > 0 => inv[c].insertToken = Val(inv[c].read).access_token

\* C4 witness: a call that read a cached token has issued its events.insert
C4_Witness ==
    \E c \in Calls :
        ~IsNull(inv[c].read) /\ inv[c].inserts = 1 /\ inv[c].pc = "insertWait"

\* the step in which call c stores the token response it received
StoresToken(c) == inv'[c].writes = inv[c].writes + 1

\* C5: when the provider callback delivers {access_token, expires_in}, the cache
\* entry becomes, whatever it held, that access_token with expires_at = time of
\* storing + expires_in * 1000, and a read at any later time before that expires_at
\* returns that access_token and that expires_at.
C5_CachePopulation ==
    [][\A c \in Calls : StoresToken(c) =>
          LET response == inv'[c].response
              expected == [access_token |-> response.access_token,
                           expires_at |-> now + response.expires_in * MsPerSecond]
          IN /\ response.error = NoError
             /\ localStorage' = JSONstringify(expected)
             /\ \A t \in now..MaxTime :
                    t < expected.expires_at =>
                        getStoredToken(localStorage', t).value = Some(expected)]_vars

\* C5 witness: a call stored a granted token over an entry that was not absent
\* (the other call had stored its own grant meanwhile)
C5_Witness ==
    \E c, d \in Calls :
        /\ c # d /\ inv[c].writes = 1 /\ inv[d].writes = 1
        /\ ~IsNull(localStorage)
        /\ JSONparse(localStorage).access_token = inv[c].response.access_token
        /\ inv[c].response.access_token # inv[d].response.access_token

\* C6: when events.insert fails, the call rejects with that same error and shows
\* no success notification; a success notification is shown only by a call whose
\* events.insert resolved.
C6_ErrorSurfacing ==
    \A c \in Calls :
        /\ inv[c].insertResult \in InsertErrors =>
              /\ inv[c].result = "rejected" /\ inv[c].error = inv[c].insertResult
              /\ inv[c].okToasts = 0
        /\ inv[c].okToasts > 0 =>
              inv[c].insertResult = "ok" /\ inv[c].result = "resolved"

\* C6 witness: a call whose events.insert was rejected has settled
C6_Witness ==
    \E c \in Calls : inv[c].insertResult \in InsertErrors /\ inv[c].pc = "done"

\* C7: a call of addToGoogleCalendar that fails, at whatever step, shows one
\* failure notification and rejects.
C7_OneFailureToast ==
    \A c \in Calls :
        (inv[c].kind = "add" /\ inv[c].pc = "done" /\ inv[c].error # NoError) =>
            inv[c].result = "rejected" /\ inv[c].errToasts = 1

\* the step in which initGoogleCalendar, run by call c, fails
InitFails(c) ==
    /\ inv[c].pc \in {"idle", "gisWait"}
    /\ inv'[c].result = "rejected" /\ inv'[c].reads = 0

\* C8: a failure of initialization (credentials missing, script load error, token
\* client creation throwing) rejects the call and sets neither isInitialized nor
\* tokenClient, and a call made while isInitialized is false does not return early:
\* it validates the credentials and appends the script element again.
C8_InitFailureRetry ==
    [][\A c \in Calls :
          /\ InitFails(c) =>
                /\ isInitialized' = isInitialized /\ tokenClient' = tokenClient
                /\ inv'[c].pc = "done" /\ inv'[c].tokenClients = 0
          /\ (inv[c].pc = "idle" /\ inv'[c].pc # "idle" /\ ~isInitialized) =>
                IF validateEnvVars
                THEN inv'[c].pc = "gisWait" /\ inv'[c].gisLoads = 1
                ELSE /\ inv'[c].result = "rejected" /\ inv'[c].gisLoads = 0
                     /\ inv'[c].error = "Missing Google Calendar credentials"]_vars

\* C8 witness: the first call has returned without initializing (it failed), and
\* the second call is loading the identity script again
C8_Witness ==
    /\ inv[1].pc = "returned" /\ ~isInitialized /\ IsNull(tokenClient)
    /\ inv[2].pc = "gisWait" /\ inv[2].gisLoads = 1

\* the step in which the provider callback hands call c an error response
AuthError(c) ==
    /\ inv[c].pc = "tokenWait" /\ inv'[c].pc # "tokenWait"
    /\ inv'[c].response.error # NoError

\* C9: when the provider callback reports an error, the call rejects with the
\* provider's error message, isInitialized stays true and tokenClient is kept, the
\* token cache is as it was, and the call issues no events.insert.
C9_AuthorizationError ==
    [][\A c \in Calls : AuthError(c) =>
          /\ inv'[c].pc = "done" /\ inv'[c].result = "rejected"
          /\ inv'[c].error = inv'[c].response.error
          /\ isInitialized /\ isInitialized'
          /\ tokenClient' = tokenClient /\ ~IsNull(tokenClient')
          /\ localStorage' = localStorage
          /\ inv'[c].writes = 0 /\ inv'[c].inserts = 0 /\ inv'[c].setTokens = 0]_vars

\* C9 witness: a call was rejected with the provider's error
C9_Witness ==
    \E c \in Calls :
        /\ inv[c].pc = "done" /\ inv[c].error \in ProviderErrors
        /\ inv[c].result = "rejected" /\ isInitialized

\* C10: the calendar client library is loaded and initialized once: at most one
\* call appends the api.js script element and at most one calls client.init.
C10_LoadedOnce ==
    /\ Cardinality({c \in Calls : inv[c].gapiLoads > 0}) <= 1
    /\ Cardinality({c \in Calls : inv[c].gapiInits > 0}) <= 1

\* the errors of the external steps, as the code words them
StepFailures ==
    {"Missing Google Calendar credentials", "Failed to load Google Identity Services",
     "initTokenClient failed", "Failed to load gapi client",
     "Timeout loading gapi client", "client.init rejected"}
        \cup ProviderErrors \cup InsertErrors

\* C11: a call of addToGoogleCalendar that found no cached token and resolved made
\* one requestAccessToken call, one cache write, one events.insert and one success
\* notification, in that order (the write after the prompt, the insert after the
\* write and with the calendar client initialized, the notification after the
\* insert resolved); and a lone invocation rejects only with the error of a step
\* that failed.
C11_EndToEnd ==
    \A c \in Calls :
        (inv[c].kind = "add" /\ IsNull(inv[c].read)) =>
            /\ inv[c].result = "resolved" =>
                  /\ inv[c].prompts = 1 /\ inv[c].writes = 1 /\ inv[c].inserts = 1
                  /\ inv[c].okToasts = 1 /\ inv[c].errToasts = 0
            /\ inv[c].writes > 0 => inv[c].prompts = 1 /\ inv[c].writes = 1
            /\ inv[c].inserts > 0 =>
                  /\ inv[c].writes = 1 /\ inv[c].inserts = 1 /\ gapi.calendar
                  /\ inv[c].insertToken = inv[c].response.access_token
            /\ inv[c].okToasts > 0 => inv[c].insertResult = "ok" /\ inv[c].inserts = 1
            /\ (started = 1 /\ inv[c].pc = "done") =>
                  \/ inv[c].result = "resolved" /\ inv[c].error = NoError
                  \/ inv[c].result = "rejected" /\ inv[c].error \in StepFailures

\* C11 witness: the only invocation, with nothing cached, has resolved
C11_Witness ==
    /\ started = 1 /\ inv[1].kind = "add" /\ inv[1].pc = "done"
    /\ inv[1].reads = 1 /\ IsNull(inv[1].read) /\ inv[1].result = "resolved"
    /\ inv[1].prompts = 1 /\ inv[1].okToasts = 1

\* C12: with the API key or the client id absent, every call rejects with the
\* configuration error, and no script element is appended, no consent prompt is
\* requested, no calendar call is made and the token cache is neither read nor
\* written.
C12_ConfigFailsFast ==
    ~(GOOGLE_API_KEY /\ GOOGLE_CLIENT_ID) =>
        /\ ~isInitialized /\ IsNull(tokenClient) /\ pending = {}
        /\ ~gapi.loaded /\ ~gapi.client
        /\ \A c \in Calls :
              /\ inv[c].pc \in {"idle", "done", "returned"}
              /\ inv[c].pc = "done" =>
                    /\ inv[c].result = "rejected"
                    /\ inv[c].error = "Missing Google Calendar credentials"
              /\ inv[c].gisLoads = 0 /\ inv[c].gapiLoads = 0 /\ inv[c].gapiInits = 0
              /\ inv[c].prompts = 0 /\ inv[c].inserts = 0 /\ inv[c].setTokens = 0
              /\ inv[c].reads = 0 /\ inv[c].writes = 0

\* C12 witness: with only the client id absent, addToGoogleCalendar has rejected
C12_Witness ==
    /\ GOOGLE_API_KEY /\ ~GOOGLE_CLIENT_ID
    /\ \E c \in Calls :
          inv[c].kind = "add" /\ inv[c].pc = "done" /\ inv[c].result = "rejected"

\* C13: the token request of a call is settled by the provider's response to that
\* call's own requestAccessToken: the grant a call receives is the one that answers
\* its own request.
C13_OwnResponse ==
    \A c \in Calls : inv[c].response.access_token \in {NoToken, c}

\* C14: no step leaves a half-completed effect behind: the calendar client counts
\* as loaded (the check of lines 121 and 165) only when client.init has succeeded
\* or some call is still waiting for it.
C14_NoHalfLoadedClient ==
    (GapiClientPresent /\ \A c \in Calls : inv[c].pc # "gapiInitWait") => gapi.calendar

\* C17: setToken and events.insert are called only after client.init has
\* completed successfully.
C17_SubmitAfterInit ==
    \A c \in Calls : (inv[c].setTokens > 0 \/ inv[c].inserts > 0) => gapi.calendar

\* C18: the access token on the shared calendar client at the moment a call
\* issues its events.insert is the token that call read from the cache or
\* received from the provider.
C18_OwnTokenAtInsert ==
    \A c \in Calls :
        inv[c].inserts > 0 =>
            /\ inv[c].insertToken = inv[c].accessToken
            /\ inv[c].insertToken =
                  IF IsNull(inv[c].read) THEN inv[c].response.access_token
                  ELSE Val(inv[c].read).access_token

\* C18 witness: two overlapping calls have each issued events.insert, with
\* different tokens
C18_Witness ==
    \E c, d \in Calls :
        /\ inv[c].pc = "insertWait" /\ inv[d].pc = "insertWait"
        /\ inv[c].insertToken # inv[d].insertToken

\* C19: isInitialized implies that tokenClient is not null, and no call fails
\* with 'Token client not initialized'.
C19_InitializedHasClient ==
    /\ isInitialized => ~IsNull(tokenClient)
    /\ \A c \in Calls : inv[c].error # "Token client not initialized"

\* C19 witness: a call made after initialization passed the check of line 98 and
\* requested a token
C19_Witness ==
    \E c \in Calls :
        /\ isInitialized /\ inv[c].sawInit /\ inv[c].kind = "add"
        /\ inv[c].pc = "tokenWait" /\ inv[c].prompts = 1

\* the calls made by handleCalendarConnect that have not returned to it
InFlightUI == {c \in Calls : inv[c].ui /\ inv[c].pc \notin {"idle", "returned"}}

\* C15: isConnecting is true exactly while a call made by handleCalendarConnect is
\* in flight, at most one such call is in flight, and when the call has settled,
\* resolved or rejected, and handleCalendarConnect has resumed, isConnecting is
\* false.
C15_GuardedReentrancy ==
    /\ isConnecting <=> InFlightUI # {}
    /\ Cardinality(InFlightUI) <= 1

\* C15 witness: a first click's call failed and returned, the control was enabled
\* again, and a second click's call is in flight
C15_Witness ==
    /\ inv[1].pc = "returned" /\ ~isInitialized
    /\ inv[2].ui /\ inv[2].pc = "gisWait" /\ isConnecting

\* C16: a call that waits for gapi.load('client') does not wait forever: the
\* library calls back, or the load is treated as failed and the call rejects.
C16_BoundedLoad ==
    \A c \in Calls :
        (inv[c].pc = "gapiLoadWait") ~>
            \/ inv[c].pc = "gapiInitWait"
            \/ inv[c].pc = "done" /\ inv[c].result = "rejected"

\* C16 witness: a call was rejected by the timeout of gapi.load
C16_Witness ==
    \E c \in Calls :
        inv[c].pc = "done" /\ inv[c].error = "Timeout loading gapi client"
====
